---- MODULE Spec2Model ----
(***************************************************************************)
(* ttl_cache: an open-addressing hash table with linear probing whose      *)
(* entries carry an expire time and are linked into a doubly-linked LRU    *)
(* list (src/ttl_cache.hpp), run side by side with the save-everything     *)
(* dummy_cache (src/dummy_cache.hpp) as src/tests.cpp does.                *)
(*                                                                         *)
(* The cache object is a record c with the fields of the class:            *)
(*   capacity, mlf (maxLoadFactor as a fraction), table, kv (the heap of   *)
(*   KeyValue nodes, indexed by address), oldest, newest, size, time, and  *)
(*   ok (FALSE once an assert of the source has failed or a null or freed  *)
(*   node has been dereferenced).                                          *)
(* Every private and public method is an operator from such a record to    *)
(* the record after the call; loops are RECURSIVE operators.               *)
(***************************************************************************)
EXTENDS Integers, Sequences, FiniteSets, TLC

(* ------------------------------ bounds -------------------------------- *)
NumKeys == 3
NumValues == 2
MaxTime == 2
MaxTTL == 2
BatchLen == 10

Keys == 1..NumKeys
Values == 1..NumValues
Times == 0..MaxTime
TTLs == 0..MaxTTL

(* --------------------------- program constants ------------------------ *)
NULL == 0
LRU_EVICTED_FLAG == -2
MIN_SAMPLE_SIZE == 20
(* MIN_LOAD_FACTOR = 0.1 and MIN_TARGET_RATIO = 0.01 as fractions *)
MIN_LOAD_FACTOR == [num |-> 1, den |-> 10]
MIN_TARGET_RATIO == [num |-> 1, den |-> 100]

(* the result of get when the key is not found: an empty std::optional *)
Absent == 0

(* the constructor arguments the model is run with: maxEntries and         *)
(* maxLoadFactor (a fraction in [0.01, 0.5]); the capacities are 4, 7, 6   *)
Small == [maxEntries |-> 2, mlf |-> [num |-> 1, den |-> 2]]
Odd == [maxEntries |-> 2, mlf |-> [num |-> 3, den |-> 10]]
Wide == [maxEntries |-> 3, mlf |-> [num |-> 1, den |-> 2]]

(* a cache large enough for removeExpired to take samples twice: 40        *)
(* entries in a table of 80 slots, filled with the keys FillKeys           *)
Big == [maxEntries |-> 40, mlf |-> [num |-> 1, den |-> 2]]
FillKeys == (NumKeys + 1)..(NumKeys + Big.maxEntries)

(* a cache so sparse that, with 20 entries in its 210 slots, the load       *)
(* factor is below MIN_LOAD_FACTOR; it is filled with the keys SparseKeys  *)
Sparse == [maxEntries |-> 21, mlf |-> [num |-> 1, den |-> 10]]
SparseKeys ==
  (NumKeys + Big.maxEntries + 1)..(NumKeys + Big.maxEntries + Sparse.maxEntries)

(* the target ratios removeExpired is called with *)
Ratios == { [num |-> 1, den |-> 200], [num |-> 1, den |-> 4] }

(* the hash function the cache is constructed with: keys 1 and 3 have the  *)
(* same hash, and hash 11 falls in the last slot of a table of 4 or 6      *)
(* slots, so that clusters wrap around the end of the table; the hashes of *)
(* the keys FillKeys fall in four slots of a table of 80, the last one of  *)
(* the table among them; the keys SparseKeys all have the hash of the last *)
(* slot of a table of 210                                                  *)
hashFunction(key) ==
  CASE key = 1 -> 11
    [] key = 2 -> 12
    [] key = 3 -> 11
    [] key > NumKeys + Big.maxEntries -> 209
    [] OTHER -> 20 * key + 19

Ceil(a, b) == IF a % b = 0 THEN a \div b ELSE (a \div b) + 1

(* ------------------------- probe-index helpers ------------------------ *)
nextIndex(c, index) == (index + 1) % c.capacity

prevIndex(c, index) == (index + c.capacity - 1) % c.capacity

invalidIndex(c) == c.capacity

hashToIndex(c, hash) == hash % c.capacity

entryDist(c, index1, index2) ==
  IF index1 <= index2 THEN index2 - index1 ELSE index2 + c.capacity - index1

isEmpty(c, index) == c.table[index].kv = NULL

setEmpty(c, index) == [c EXCEPT !.table[index].kv = NULL]

(* mutant: the cached hash is not moved with the entry *)
moveEntryLosesHash(c, fromIndex, toIndex) ==
  setEmpty([c EXCEPT !.table[toIndex].kv = c.table[fromIndex].kv,
                     !.table[toIndex].expireTime = c.table[fromIndex].expireTime],
           fromIndex)

(* mutant: the slot moved from is not emptied *)
moveEntryCopies(c, fromIndex, toIndex) == [c EXCEPT !.table[toIndex] = c.table[fromIndex]]

moveEntryFromTo(c, fromIndex, toIndex) ==
  setEmpty([c EXCEPT !.table[toIndex] = c.table[fromIndex]], fromIndex)

(* the loops over the table stop after capacity steps in the model: a loop *)
(* of the source that would not terminate (a full table) clears c.ok       *)
RECURSIVE nextEmptyFrom(_, _, _)
nextEmptyFrom(c, index, fuel) ==
  IF isEmpty(c, index) \/ fuel = 0 THEN index
  ELSE nextEmptyFrom(c, nextIndex(c, index), fuel - 1)

nextEmpty(c, index) == nextEmptyFrom(c, index, c.capacity)

RECURSIVE findClusterStartFrom(_, _, _)
findClusterStartFrom(c, index, fuel) ==
  IF isEmpty(c, prevIndex(c, index)) \/ fuel = 0 THEN index
  ELSE findClusterStartFrom(c, prevIndex(c, index), fuel - 1)

findClusterStart(c, index) == findClusterStartFrom(c, index, c.capacity)

(* mutant: an entry expires one tick before its expire time *)
isExpiredEarly(c, index) == c.time + 1 >= c.table[index].expireTime

(* mutant: an entry lives through its expire time *)
isExpiredStrict(c, index) == c.time > c.table[index].expireTime

isExpired(c, index) == c.time >= c.table[index].expireTime

(* a node address that can be dereferenced *)
isLive(c, kv) == kv # NULL /\ c.kv[kv].live

(* mutant: the keys are not compared, only their hashes *)
isKeyAtIndexHashOnly(c, key, keyHash, index) == c.table[index].hash = keyHash

isKeyAtIndex(c, key, keyHash, index) ==
  /\ c.table[index].hash = keyHash
  /\ c.kv[c.table[index].kv].key = key

RECURSIVE findKeyFrom(_, _, _, _, _)
findKeyFrom(c, key, keyHash, idx, fuel) ==
  IF isEmpty(c, idx) \/ fuel = 0 THEN invalidIndex(c)
  ELSE IF isKeyAtIndex(c, key, keyHash, idx) THEN idx
  ELSE findKeyFrom(c, key, keyHash, nextIndex(c, idx), fuel - 1)

findKeyHash(c, key, keyHash) ==
  findKeyFrom(c, key, keyHash, hashToIndex(c, keyHash), c.capacity)

findKey(c, key) == findKeyHash(c, key, hashFunction(key))

(* ------------------------------ LRU list ------------------------------ *)
(* a freed (or never allocated) KeyValue address *)
FreeNode == [live |-> FALSE, key |-> 0, value |-> 0, next |-> NULL, prev |-> NULL]

(* the source dereferences a null or freed pointer: undefined behaviour,   *)
(* recorded in c.ok; the call is abandoned there                           *)
Fault(c) == [c EXCEPT !.ok = FALSE]

LRU_removeFromList(c, kv) ==
  IF c.size = 1 THEN
    [c EXCEPT !.newest = NULL, !.oldest = NULL,
              !.ok = c.ok /\ kv = c.newest /\ kv = c.oldest]
  ELSE IF kv = c.newest THEN
    IF ~isLive(c, c.newest) \/ ~isLive(c, c.kv[c.newest].prev) THEN Fault(c)
    ELSE LET p == c.kv[c.newest].prev
         IN [c EXCEPT !.newest = p, !.kv[p].next = NULL,
                      !.ok = c.ok /\ kv # c.oldest]
  ELSE IF kv = c.oldest THEN
    IF ~isLive(c, c.oldest) \/ ~isLive(c, c.kv[c.oldest].next) THEN Fault(c)
    ELSE LET n == c.kv[c.oldest].next
         IN [c EXCEPT !.oldest = n, !.kv[n].prev = NULL,
                      !.ok = c.ok /\ kv # c.newest]
  ELSE
    IF ~isLive(c, kv) \/ ~isLive(c, c.kv[kv].next) \/ ~isLive(c, c.kv[kv].prev)
    THEN Fault(c)
    ELSE LET n == c.kv[kv].next
             p == c.kv[kv].prev
         IN [c EXCEPT !.kv[n].prev = p, !.kv[p].next = n]

(* mutant: the first node does not become LRU_oldest *)
LRU_insertNewestOnly(c, kv) ==
  IF c.size = 0 THEN
    [c EXCEPT !.newest = kv, !.kv[kv].next = NULL, !.kv[kv].prev = NULL]
  ELSE IF ~isLive(c, c.newest) THEN Fault(c)
  ELSE
    [c EXCEPT !.kv[c.newest].next = kv,
              !.kv[kv].prev = c.newest, !.kv[kv].next = NULL,
              !.newest = kv]

LRU_insertNewest(c, kv) ==
  IF c.size = 0 THEN
    [c EXCEPT !.oldest = kv, !.newest = kv,
              !.kv[kv].next = NULL, !.kv[kv].prev = NULL]
  ELSE IF ~isLive(c, c.newest) THEN Fault(c)
  ELSE
    [c EXCEPT !.kv[c.newest].next = kv,
              !.kv[kv].prev = c.newest, !.kv[kv].next = NULL,
              !.newest = kv]

(* assert(findKey(key) != invalidIndex()) *)
assertFound(c, key) == [c EXCEPT !.ok = @ /\ findKey(c, key) # invalidIndex(c)]

(* mutant: an accessed node keeps its place in the list *)
LRU_moveToNewestNever(c, kv) == c

LRU_moveToNewest(c, kv) ==
  IF kv = c.newest THEN c
  ELSE assertFound(LRU_insertNewest(LRU_removeFromList(c, kv), kv), c.kv[kv].key)

(* mutant: _size is not decremented *)
removeKeepsSize(c, index) ==
  [LRU_removeFromList(setEmpty(c, index), c.table[index].kv)
     EXCEPT !.kv[c.table[index].kv] = FreeNode]

(* mutant: _size is decremented before the node is unlinked *)
removeDecrementsFirst(c, index) ==
  [LRU_removeFromList([setEmpty(c, index) EXCEPT !.size = @ - 1], c.table[index].kv)
     EXCEPT !.kv[c.table[index].kv] = FreeNode]

(* ---------------------------- cluster repair -------------------------- *)
removeWithoutRelocations(c, index) ==
  [LRU_removeFromList(setEmpty(c, index), c.table[index].kv)
     EXCEPT !.size = @ - 1, !.kv[c.table[index].kv] = FreeNode]

(* mutant: the entry after a removed one is skipped *)
RECURSIVE fixClusterPass1Skips(_, _, _, _)
fixClusterPass1Skips(c, index, firstRemovedIndex, fuel) ==
  IF isEmpty(c, index) \/ fuel = 0
  THEN [c |-> c, firstRemovedIndex |-> firstRemovedIndex, clusterEnd |-> index]
  ELSE IF isExpired(c, index)
  THEN fixClusterPass1Skips(removeWithoutRelocations(c, index),
                            nextIndex(c, nextIndex(c, index)),
                            IF firstRemovedIndex = invalidIndex(c) THEN index
                            ELSE firstRemovedIndex,
                            fuel - 1)
  ELSE fixClusterPass1Skips(c, nextIndex(c, index), firstRemovedIndex, fuel - 1)

(* mutant: pass 1 does not stop at the empty slot that ends the cluster    *)
(* but goes once around the table                                          *)
RECURSIVE fixClusterPass1AllSlots(_, _, _, _)
fixClusterPass1AllSlots(c, index, firstRemovedIndex, fuel) ==
  IF fuel = 0
  THEN [c |-> c, firstRemovedIndex |-> firstRemovedIndex, clusterEnd |-> index]
  ELSE IF ~isEmpty(c, index) /\ isExpired(c, index)
  THEN fixClusterPass1AllSlots(removeWithoutRelocations(c, index), nextIndex(c, index),
                               IF firstRemovedIndex = invalidIndex(c) THEN index
                               ELSE firstRemovedIndex,
                               fuel - 1)
  ELSE fixClusterPass1AllSlots(c, nextIndex(c, index), firstRemovedIndex, fuel - 1)

(* pass 1 of fixCluster: the loop of lines 425-440, from 'index' on;       *)
(* yields the cache, firstRemovedIndex and the index the loop stopped at   *)
RECURSIVE fixClusterPass1(_, _, _, _)
fixClusterPass1(c, index, firstRemovedIndex, fuel) ==
  IF isEmpty(c, index) \/ fuel = 0
  THEN [c |-> c, firstRemovedIndex |-> firstRemovedIndex, clusterEnd |-> index]
  ELSE IF isExpired(c, index)
  THEN fixClusterPass1(removeWithoutRelocations(c, index), nextIndex(c, index),
                       IF firstRemovedIndex = invalidIndex(c) THEN index
                       ELSE firstRemovedIndex,
                       fuel - 1)
  ELSE fixClusterPass1(c, nextIndex(c, index), firstRemovedIndex, fuel - 1)

(* the inner loop of line 457: the first empty slot from newIdx on, or index *)
RECURSIVE relocationTarget(_, _, _)
relocationTarget(c, newIdx, index) ==
  IF newIdx # index /\ ~isEmpty(c, newIdx)
  THEN relocationTarget(c, nextIndex(c, newIdx), index)
  ELSE newIdx

(* mutant: no entry is relocated *)
relocateNever(c, index) == c

(* mutant: the search for the new slot starts one slot before the ideal one *)
relocateFromBefore(c, index) ==
  IF isEmpty(c, index) THEN c
  ELSE LET moveTo(c1, idealIndex, newIdx) ==
             IF idealIndex # index /\ newIdx # index
             THEN moveEntryFromTo(c1, index, newIdx)
             ELSE c1
           probe(c1, idealIndex) ==
             moveTo(c1, idealIndex,
                    relocationTarget(c1, prevIndex(c1, idealIndex), index))
       IN probe([c EXCEPT !.ok = @ /\ ~isExpired(c, index)],
                hashToIndex(c, c.table[index].hash))

(* one iteration of the loop of pass 2 (lines 450-465) *)
relocate(c, index) ==
  IF isEmpty(c, index) THEN c
  ELSE LET moveTo(c1, idealIndex, newIdx) ==
             IF idealIndex # index /\ newIdx # index
             THEN moveEntryFromTo(c1, index, newIdx)
             ELSE c1
           probe(c1, idealIndex) ==
             moveTo(c1, idealIndex, relocationTarget(c1, idealIndex, index))
       IN probe([c EXCEPT !.ok = @ /\ ~isExpired(c, index)],
                hashToIndex(c, c.table[index].hash))

(* mutant: pass 2 is skipped *)
skipPass2(c, index, clusterEnd) == c

RECURSIVE fixClusterPass2(_, _, _)
fixClusterPass2(c, index, clusterEnd) ==
  IF index = clusterEnd THEN c
  ELSE fixClusterPass2(relocate(c, index), nextIndex(c, index), clusterEnd)

fixCluster(c, indexInCluster) ==
  IF isEmpty(c, indexInCluster) THEN c
  ELSE LET pass2(p1) ==
             IF p1.firstRemovedIndex = invalidIndex(c) THEN p1.c
             ELSE fixClusterPass2(p1.c, nextIndex(c, p1.firstRemovedIndex),
                                  p1.clusterEnd)
       IN pass2(fixClusterPass1(c, findClusterStart(c, indexInCluster),
                                invalidIndex(c), c.capacity))

(* mutant: the tail of the LRU list is evicted *)
LRU_evictNewest(c) ==
  IF ~isLive(c, c.newest) THEN Fault(c)
  ELSE LET evict(index) ==
             IF index = invalidIndex(c) THEN Fault(c)
             ELSE fixCluster([c EXCEPT !.table[index].expireTime = LRU_EVICTED_FLAG,
                                       !.ok = @ /\ c.size > 0],
                             index)
       IN evict(findKey(c, c.kv[c.newest].key))

(* mutant: the evicted entry is flagged and left for a later repair *)
LRU_evictOldestLazy(c) ==
  IF ~isLive(c, c.oldest) THEN Fault(c)
  ELSE LET evict(index) ==
             IF index = invalidIndex(c) THEN Fault(c)
             ELSE [c EXCEPT !.table[index].expireTime = LRU_EVICTED_FLAG,
                            !.ok = @ /\ c.size > 0]
       IN evict(findKey(c, c.kv[c.oldest].key))

LRU_evictOldest(c) ==
  IF ~isLive(c, c.oldest) THEN Fault(c)
  ELSE LET evict(index) ==
             IF index = invalidIndex(c) THEN Fault(c)
             ELSE fixCluster([c EXCEPT !.table[index].expireTime = LRU_EVICTED_FLAG,
                                       !.ok = @ /\ c.size > 0],
                             index)
       IN evict(findKey(c, c.kv[c.oldest].key))

(* --------------------------- public operations ------------------------ *)
(* what a public call throws: the message of its std::invalid_argument *)
NoThrow == "none"
ClockRegression == "attempt to time travel"
DeadOnArrival == "insertion dead on arrival"
UnreachableTarget == "too demanding target"

(* the result of a public call: the cache after it, the value returned     *)
(* (Absent for an empty optional or void) and the exception thrown         *)
Returned(c, ret) == [c |-> c, ret |-> ret, threw |-> NoThrow]
Thrown(c, what) == [c |-> c, ret |-> Absent, threw |-> what]

(* mutant: the clock is set before the timestamp is validated *)
getThenValidate(c, key, timeStamp) ==
  LET hash == hashFunction(key)
      idealIndex == hashToIndex(c, hash)
      hit(c3, kv) == Returned(c3, c3.kv[kv].value)
      at(c1, actualIndex) ==
        IF actualIndex # invalidIndex(c1)
        THEN hit(LRU_moveToNewest([c1 EXCEPT !.ok = @ /\ ~isExpired(c1, actualIndex)],
                                  c1.table[actualIndex].kv),
                 c1.table[actualIndex].kv)
        ELSE Returned(c1, Absent)
      lookup(c1) == at(c1, findKeyHash(c1, key, hash))
  IN lookup(fixCluster([c EXCEPT !.time = timeStamp], idealIndex))

(* mutant: expiration is lazy, the cluster of the key is not repaired *)
getLazy(c, key, timeStamp) ==
  IF timeStamp < c.time THEN Thrown(c, ClockRegression)
  ELSE LET at(c1, actualIndex) ==
             IF actualIndex # invalidIndex(c1) /\ ~isExpired(c1, actualIndex)
             THEN Returned(LRU_moveToNewest(c1, c1.table[actualIndex].kv),
                           c1.kv[c1.table[actualIndex].kv].value)
             ELSE Returned(c1, Absent)
           lookup(c1) == at(c1, findKey(c1, key))
       IN lookup([c EXCEPT !.time = timeStamp])

get(c, key, timeStamp) ==
  IF timeStamp < c.time THEN Thrown(c, ClockRegression)
  ELSE LET hash == hashFunction(key)
           idealIndex == hashToIndex(c, hash)
           hit(c3, kv) == Returned(c3, c3.kv[kv].value)
           at(c1, actualIndex) ==
             IF actualIndex # invalidIndex(c1)
             THEN hit(LRU_moveToNewest([c1 EXCEPT !.ok = @ /\ ~isExpired(c1, actualIndex)],
                                       c1.table[actualIndex].kv),
                      c1.table[actualIndex].kv)
             ELSE Returned(c1, Absent)
           lookup(c1) == at(c1, findKeyHash(c1, key, hash))
       IN lookup(fixCluster([c EXCEPT !.time = timeStamp], idealIndex))

(* new KeyValue(key, value): the lowest free address, NULL when none is left *)
newKeyValue(c) ==
  IF \E a \in DOMAIN c.kv : ~c.kv[a].live
  THEN CHOOSE a \in DOMAIN c.kv :
         ~c.kv[a].live /\ \A b \in DOMAIN c.kv : ~c.kv[b].live => a <= b
  ELSE NULL

(* mutant: _size instead of _size+1 *)
exceedsLoadLate(c) == c.size * c.mlf.den > c.mlf.num * c.capacity

(* (_size+1) > maxLoadFactor * _capacity, in exact arithmetic *)
exceedsLoad(c) == (c.size + 1) * c.mlf.den > c.mlf.num * c.capacity

(* mutant: an update keeps the later of the two expire times *)
insertUpdateKeepsLater(c, actualIndex, value, expireTime) ==
  [LRU_moveToNewest(c, c.table[actualIndex].kv)
     EXCEPT !.table[actualIndex].expireTime = IF @ > expireTime THEN @ ELSE expireTime,
            !.kv[c.table[actualIndex].kv].value = value]

(* lines 190-198: the key is stored at actualIndex, its entry is updated *)
insertUpdate(c, actualIndex, value, expireTime) ==
  [LRU_moveToNewest(c, c.table[actualIndex].kv)
     EXCEPT !.table[actualIndex].expireTime = expireTime,
            !.kv[c.table[actualIndex].kv].value = value]

(* lines 200-212: the key is new, its entry goes to the first empty slot *)
insertNew(c, key, hash, value, expireTime) ==
  LET add(newIndex, kv) ==
        IF kv = NULL \/ ~isEmpty(c, newIndex) THEN Fault(c)
        ELSE assertFound(
               [LRU_insertNewest(
                  [c EXCEPT
                     !.kv[kv] = [live |-> TRUE, key |-> key, value |-> value,
                                 next |-> NULL, prev |-> NULL],
                     !.table[newIndex] = [kv |-> kv, hash |-> hash,
                                          expireTime |-> expireTime]],
                  kv)
                EXCEPT !.size = @ + 1],
               key)
  IN add(nextEmpty(c, hashToIndex(c, hash)), newKeyValue(c))

(* lines 187-212: what insert does once the clock is set and the key's     *)
(* cluster is repaired                                                     *)
insertStore(c, key, hash, value, expireTime) ==
  LET store(c2, actualIndex) ==
        IF actualIndex # invalidIndex(c2)
        THEN insertUpdate(c2, actualIndex, value, expireTime)
        ELSE insertNew(c2, key, hash, value, expireTime)
      lookup(c2) == store(c2, findKeyHash(c2, key, hash))
  IN lookup(IF exceedsLoad(c) THEN LRU_evictOldest(c) ELSE c)

(* mutant: the ttl is validated after the clock is set and the cluster of  *)
(* the key is repaired                                                     *)
insertValidatesLate(c, key, value, timeStamp, ttl) ==
  IF timeStamp < c.time THEN Thrown(c, ClockRegression)
  ELSE LET checked(c1) ==
             IF ttl <= 0 THEN Thrown(c1, DeadOnArrival)
             ELSE Returned(insertStore(c1, key, hashFunction(key), value, timeStamp + ttl),
                           Absent)
       IN checked(fixCluster([c EXCEPT !.time = timeStamp],
                             hashToIndex(c, hashFunction(key))))

(* mutant: the cluster of the key is not repaired before the key is stored *)
insertWithoutRepair(c, key, value, timeStamp, ttl) ==
  IF timeStamp < c.time THEN Thrown(c, ClockRegression)
  ELSE IF ttl <= 0 THEN Thrown(c, DeadOnArrival)
  ELSE Returned(insertStore([c EXCEPT !.time = timeStamp],
                            key, hashFunction(key), value, timeStamp + ttl),
                Absent)

insert(c, key, value, timeStamp, ttl) ==
  IF timeStamp < c.time THEN Thrown(c, ClockRegression)
  ELSE IF ttl <= 0 THEN Thrown(c, DeadOnArrival)
  ELSE Returned(insertStore(fixCluster([c EXCEPT !.time = timeStamp],
                                       hashToIndex(c, hashFunction(key))),
                            key, hashFunction(key), value, timeStamp + ttl),
                Absent)

(* ------------------------------ bulk expire --------------------------- *)
loadFactorBelow(c, r) == c.size * r.den < r.num * c.capacity

RECURSIVE clusterAfter(_, _, _)
clusterAfter(c, index, fuel) ==
  IF isEmpty(c, index) \/ fuel = 0 THEN <<>>
  ELSE <<index>> \o clusterAfter(c, nextIndex(c, index), fuel - 1)

RECURSIVE clusterBefore(_, _, _)
clusterBefore(c, index, fuel) ==
  IF isEmpty(c, index) \/ fuel = 0 THEN <<>>
  ELSE <<index>> \o clusterBefore(c, prevIndex(c, index), fuel - 1)

clusterIndices(c, index) ==
  LET backwards(res) ==
        res \o clusterBefore(c, prevIndex(c, res[1]), c.capacity - Len(res))
  IN backwards(clusterAfter(c, index, c.capacity))

SeqRange(s) == { s[i] : i \in 1..Len(s) }

(* the slots a draw of randomIndex can add to the sample: non-empty and    *)
(* not sampled yet (any other draw repeats the loop without a change).     *)
(* What a draw does depends only on the cluster it falls in (clusterIndices *)
(* lists the same slots from another start, fixCluster starts from         *)
(* findClusterStart), so the first slot of each such cluster stands for    *)
(* the draws into it.                                                      *)
sampleCandidates(c, sample) ==
  { findClusterStart(c, i) :
      i \in { j \in 0..(c.capacity - 1) : ~isEmpty(c, j) /\ j \notin SeqRange(sample) } }

(* the sampling loop of lines 261-271: every (cache, sample) it can end in *)
RECURSIVE takeSample(_, _)
takeSample(c, sample) ==
  IF Len(sample) >= MIN_SAMPLE_SIZE THEN { [c |-> c, sample |-> sample] }
  ELSE UNION { takeSample(fixCluster(c, index), sample \o clusterIndices(c, index))
               : index \in sampleCandidates(c, sample) }

(* mutant: the loop stops after one sample *)
expireLoopOnce(c, targetRatio) ==
  IF loadFactorBelow(c, MIN_LOAD_FACTOR) THEN {c}
  ELSE IF c.size < MIN_SAMPLE_SIZE THEN {c}
  ELSE { s.c : s \in takeSample(c, <<>>) }

(* mutant: the load factor is not tested *)
RECURSIVE expireLoopIgnoresLoad(_, _)
expireLoopIgnoresLoad(c, targetRatio) ==
  IF c.size < MIN_SAMPLE_SIZE THEN {c}
  ELSE UNION { LET expiredCount == c.size - s.c.size
               IN IF expiredCount * targetRatio.den <= targetRatio.num * Len(s.sample)
                  THEN {s.c}
                  ELSE expireLoopIgnoresLoad(s.c, targetRatio)
               : s \in takeSample(c, <<>>) }

(* the loop of lines 244-280: every cache it can end in *)
RECURSIVE expireLoop(_, _)
expireLoop(c, targetRatio) ==
  IF loadFactorBelow(c, MIN_LOAD_FACTOR) THEN {c}
  ELSE IF c.size < MIN_SAMPLE_SIZE THEN {c}
  ELSE UNION { LET expiredCount == c.size - s.c.size
               IN IF expiredCount * targetRatio.den <= targetRatio.num * Len(s.sample)
                  THEN {s.c}
                  ELSE expireLoop(s.c, targetRatio)
               : s \in takeSample(c, <<>>) }

(* mutant: the target ratio is validated after the clock is set *)
removeExpiredValidatesLate(c, timeStamp, targetRatio) ==
  IF timeStamp < c.time THEN { Thrown(c, ClockRegression) }
  ELSE IF targetRatio.num * MIN_TARGET_RATIO.den < MIN_TARGET_RATIO.num * targetRatio.den
  THEN { Thrown([c EXCEPT !.time = timeStamp], UnreachableTarget) }
  ELSE { Returned(c1, Absent) : c1 \in expireLoop([c EXCEPT !.time = timeStamp], targetRatio) }

(* mutant: currentTime is not updated *)
removeExpiredKeepsClock(c, timeStamp, targetRatio) ==
  IF timeStamp < c.time THEN { Thrown(c, ClockRegression) }
  ELSE IF targetRatio.num * MIN_TARGET_RATIO.den < MIN_TARGET_RATIO.num * targetRatio.den
  THEN { Thrown(c, UnreachableTarget) }
  ELSE { Returned(c1, Absent) : c1 \in expireLoop(c, targetRatio) }

(* every result removeExpired can have, one per outcome of the sampling *)
removeExpired(c, timeStamp, targetRatio) ==
  IF timeStamp < c.time THEN { Thrown(c, ClockRegression) }
  ELSE IF targetRatio.num * MIN_TARGET_RATIO.den < MIN_TARGET_RATIO.num * targetRatio.den
  THEN { Thrown(c, UnreachableTarget) }
  ELSE { Returned(c1, Absent) : c1 \in expireLoop([c EXCEPT !.time = timeStamp], targetRatio) }

(* ------------------------------ dummy_cache --------------------------- *)
(* the oracle is a record d with the fields currentTime and kvMap; a key   *)
(* that is not in the map is mapped to NoPair                              *)
NoPair == [in |-> FALSE, first |-> 0, second |-> 0]

dummy_insert(d, key, value, timeStamp, ttl) ==
  IF timeStamp < d.currentTime THEN Thrown(d, ClockRegression)
  ELSE IF ttl <= 0 THEN Thrown(d, DeadOnArrival)
  ELSE Returned([d EXCEPT !.currentTime = timeStamp,
                          !.kvMap[key] = [in |-> TRUE, first |-> value,
                                          second |-> timeStamp + ttl]],
                Absent)

dummy_get(d, key, timeStamp) ==
  IF timeStamp < d.currentTime THEN Thrown(d, ClockRegression)
  ELSE LET d1 == [d EXCEPT !.currentTime = timeStamp]
       IN IF d1.kvMap[key].in
          THEN IF d1.kvMap[key].second < d1.currentTime
               THEN Returned([d1 EXCEPT !.kvMap[key] = NoPair], Absent)
               ELSE Returned(d1, d1.kvMap[key].first)
          ELSE Returned(d1, Absent)

(* ----------------------------- the state ------------------------------ *)
VARIABLES
  driver,         \* who calls the cache: "calls", "table", "test", "fill", "sparse"
  maxEntries,     \* constructor argument (not stored by the class)
  maxLoadFactor,  \* fraction [num, den]
  _capacity,
  table,          \* 0.._capacity-1 -> [kv, hash, expireTime]
  heap,           \* address -> KeyValue node [live, key, value, next, prev]
  LRU_oldest, LRU_newest,
  _size,
  currentTime,
  assertsHold,    \* no assert has failed, no null or freed node was dereferenced
  trueMap,        \* the dummy_cache run next to the cache by the test
  lastInsert,     \* key -> what became of its most recent insert
  victim,         \* key -> an insert since then chose it as the LRU victim
  recency,        \* the keys stored, by their most recent successful access
  call            \* the removeExpired call in progress, when it is run step by step

cacheVars == <<maxLoadFactor, _capacity, table, heap, LRU_oldest, LRU_newest,
               _size, currentTime>>
vars == <<driver, maxEntries, maxLoadFactor, _capacity, table, heap, LRU_oldest,
          LRU_newest, _size, currentTime, assertsHold, trueMap, lastInsert,
          victim, recency, call>>

(* the cache object as the record the operators work on *)
Cache ==
  [capacity |-> _capacity, mlf |-> maxLoadFactor, table |-> table, kv |-> heap,
   oldest |-> LRU_oldest, newest |-> LRU_newest, size |-> _size,
   time |-> currentTime, ok |-> assertsHold]

(* the fields of the object take the values of record c *)
CommitCache(c) ==
  /\ table' = c.table
  /\ heap' = c.kv
  /\ LRU_oldest' = c.oldest
  /\ LRU_newest' = c.newest
  /\ _size' = c.size
  /\ currentTime' = c.time
  /\ assertsHold' = c.ok
  /\ UNCHANGED <<driver, maxEntries, maxLoadFactor, _capacity>>

(* a public call run as one step leaves no call in progress *)
Commit(c) == CommitCache(c) /\ UNCHANGED call

(* no call of removeExpired is in progress; otherwise pc is "loop" (line   *)
(* 244) or "sample" (line 261), with the locals of the call. Of the vector *)
(* 'sample' the call reads the size (lines 261, 274) and whether an index  *)
(* is in it (line 265): it is kept as its size and the set of its elements *)
Idle == [pc |-> "idle", targetRatio |-> [num |-> 0, den |-> 1],
         beforeSize |-> 0, sampleSize |-> 0, sampled |-> {}]

TableEntry == [kv |-> NULL, hash |-> 0, expireTime |-> 0]

(* lastInsert[key]: never inserted; or the insert is still alive, with its *)
(* value and expire time (timeStamp + ttl); or it has expired              *)
NeverInserted == [state |-> "never", value |-> 0, expire |-> 0]
ExpiredInsert == [state |-> "expired", value |-> 0, expire |-> 0]
LiveInsert(value, expire) == [state |-> "live", value |-> value, expire |-> expire]

(* ttl_cache(maxEntries, maxLoadFactor, hashFunction) and dummy_cache() *)
Construct(who, cfg) ==
  /\ driver = who
  /\ maxEntries = cfg.maxEntries
  /\ maxLoadFactor = cfg.mlf
  /\ _capacity = Ceil(cfg.maxEntries * cfg.mlf.den, cfg.mlf.num)
  /\ table = [i \in 0..(_capacity - 1) |-> TableEntry]
  /\ heap = [a \in 1.._capacity |-> FreeNode]
  /\ LRU_oldest = NULL
  /\ LRU_newest = NULL
  /\ _size = 0
  /\ currentTime = 0
  /\ assertsHold = TRUE
  /\ trueMap = [currentTime |-> 0,
                kvMap |-> [k \in CASE who = "fill" -> FillKeys
                                      [] who = "sparse" -> SparseKeys
                                      [] OTHER -> Keys
                                |-> NoPair]]
  /\ lastInsert = [k \in Keys |-> NeverInserted]
  /\ victim = [k \in Keys |-> FALSE]
  /\ recency = <<>>
  /\ call = Idle

(* the key insert evicts through LRU_evictOldest (lines 187-188, 544), 0 if none *)
evictedBy(c, key, timeStamp) ==
  LET oldestOf(c1) ==
        IF exceedsLoad(c1) /\ isLive(c1, c1.oldest) THEN c1.kv[c1.oldest].key ELSE 0
  IN oldestOf(fixCluster([c EXCEPT !.time = timeStamp],
                         hashToIndex(c, hashFunction(key))))

(* lastInsert and victim after a call that returned at time 'now' *)
Elapse(inserts, now) ==
  [k \in Keys |-> IF inserts[k].state = "live" /\ inserts[k].expire <= now
                  THEN ExpiredInsert ELSE inserts[k]]

Remember(inserts, victims, now) ==
  LET keep(elapsed) ==
        /\ lastInsert' = elapsed
        /\ victim' = [k \in Keys |-> victims[k] /\ elapsed[k].state = "live"]
  IN IF driver = "calls" THEN keep(Elapse(inserts, now))
     ELSE UNCHANGED <<lastInsert, victim>>

(* recency after a successful access of 'key': the key is the most recent *)
accessed(order, key) ==
  LET other(k) == k # key
  IN SelectSeq(order, other) \o <<key>>

(* recency after a call that returned cache c: the keys no longer stored   *)
(* are forgotten                                                           *)
Recall(order, c) ==
  LET stored(k) == findKey(c, k) # invalidIndex(c)
  IN IF driver \in {"calls", "fill"} THEN recency' = SelectSeq(order, stored)
     ELSE UNCHANGED recency

(* the timestamps and ttls a driver calls with: the tests (tests.cpp       *)
(* 56-66, 124-141) never go back in time and insert with ttl > 0           *)
Stamps ==
  { t \in Times : /\ t <= currentTime + 1
                  /\ IF driver \in {"test", "fill", "sparse"} THEN currentTime <= t
                     ELSE currentTime - 1 <= t }

Lifespans == IF driver = "test" THEN TTLs \ {0} ELSE TTLs

(* the driver "table" stores one value only *)
Payloads == IF driver = "table" THEN {1} ELSE Values

Get(key, timeStamp) ==
  LET done(r, o) ==
        /\ Commit(r.c)
        /\ trueMap' = o.c
        /\ IF r.threw = NoThrow
           THEN /\ Remember(lastInsert, victim, timeStamp)
                /\ Recall(IF r.ret # Absent THEN accessed(recency, key) ELSE recency, r.c)
           ELSE UNCHANGED <<lastInsert, victim, recency>>
  IN done(get(Cache, key, timeStamp),
          IF driver = "test" THEN dummy_get(trueMap, key, timeStamp)
          ELSE Returned(trueMap, Absent))

Insert(key, value, timeStamp, ttl) ==
  LET done(r, o, evicted) ==
        /\ Commit(r.c)
        /\ trueMap' = o.c
        /\ IF r.threw = NoThrow
           THEN /\ IF driver = "calls"
                   THEN Remember([lastInsert EXCEPT
                                    ![key] = LiveInsert(value, timeStamp + ttl)],
                                 [k \in Keys |-> IF k = key THEN FALSE
                                                 ELSE IF k = evicted THEN TRUE
                                                 ELSE victim[k]],
                                 timeStamp)
                   ELSE UNCHANGED <<lastInsert, victim>>
                /\ Recall(accessed(recency, key), r.c)
           ELSE UNCHANGED <<lastInsert, victim, recency>>
  IN done(insert(Cache, key, value, timeStamp, ttl),
          IF driver \in {"test", "fill", "sparse"}
          THEN dummy_insert(trueMap, key, value, timeStamp, ttl)
          ELSE Returned(trueMap, Absent),
          evictedBy(Cache, key, timeStamp))

RemoveExpired(timeStamp, targetRatio) ==
  \E r \in removeExpired(Cache, timeStamp, targetRatio) :
    /\ Commit(r.c)
    /\ IF r.threw = NoThrow
       THEN Remember(lastInsert, victim, timeStamp) /\ Recall(recency, r.c)
       ELSE UNCHANGED <<lastInsert, victim, recency>>
    /\ UNCHANGED trueMap

Next ==
  \/ \E key \in Keys, timeStamp \in Stamps : Get(key, timeStamp)
  \/ \E key \in Keys, value \in Payloads, timeStamp \in Stamps, ttl \in Lifespans :
       Insert(key, value, timeStamp, ttl)
  \/ \E timeStamp \in Stamps, targetRatio \in Ratios :
       RemoveExpired(timeStamp, targetRatio)

(* any sequence of public calls, valid or not, on a small cache *)
Init == Construct("calls", Small)
Spec == Init /\ [][Next]_vars

(* any sequence of public calls on two larger tables, no history kept *)
InitTable == \E cfg \in {Odd, Wide} : Construct("table", cfg)
SpecTable == InitTable /\ [][Next]_vars

(* automatedCorrectnessTest: the cache and the oracle side by side; the    *)
(* test calls insert and get only                                          *)
NextTest ==
  \/ \E key \in Keys, timeStamp \in Stamps : Get(key, timeStamp)
  \/ \E key \in Keys, value \in Payloads, timeStamp \in Stamps, ttl \in Lifespans :
       Insert(key, value, timeStamp, ttl)

InitTest == Construct("test", Small)
SpecTest == InitTest /\ [][NextTest]_vars

(* TTL_testcase: the cache is filled with the keys FillKeys, one insert    *)
(* each in increasing order, in batches of BatchLen keys of one ttl;       *)
(* removeExpired is called between two batches or after the last one       *)
fillTTL(key) == 1 + (((key - NumKeys - 1) \div BatchLen) % MaxTTL)

filling == { key \in FillKeys : ~trueMap.kvMap[key].in } # {}

nextFillKey ==
  CHOOSE key \in FillKeys :
    /\ ~trueMap.kvMap[key].in
    /\ \A k \in FillKeys : k < key => trueMap.kvMap[k].in

Fill ==
  /\ filling
  /\ Insert(nextFillKey, 1, currentTime, fillTTL(nextFillKey))

betweenBatches ==
  IF filling THEN (nextFillKey - NumKeys - 1) % BatchLen = 0 ELSE TRUE

NextFill ==
  \/ Fill
  \/ /\ betweenBatches
     /\ \E timeStamp \in Stamps, targetRatio \in Ratios :
          RemoveExpired(timeStamp, targetRatio)

InitFill == Construct("fill", Big)
SpecFill == InitFill /\ [][NextFill]_vars

(* the small cache under any calls, or the large one being filled *)
InitOrder == Init \/ InitFill

NextOrder ==
  \/ driver = "calls" /\ Next
  \/ driver = "fill" /\ NextFill

SpecOrder == InitOrder /\ [][NextOrder]_vars

(* the sparse cache is filled with the keys SparseKeys, one insert each in *)
(* increasing order, with ttl 1 and 2 in turn; removeExpired is called at  *)
(* any time                                                                *)
sparseTTL(key) == 1 + (key % MaxTTL)

unfilled == { key \in SparseKeys : ~trueMap.kvMap[key].in }

FillSparse ==
  \E key \in unfilled :
    /\ { k \in unfilled : k < key } = {}
    /\ Insert(key, 1, currentTime, sparseTTL(key))

NextSparse ==
  \/ FillSparse
  \/ \E timeStamp \in Stamps, targetRatio \in Ratios :
       RemoveExpired(timeStamp, targetRatio)

InitSparse == Construct("sparse", Sparse)
SpecSparse == InitSparse /\ [][NextSparse]_vars

(* the large cache or the sparse one being filled *)
InitSample == InitFill \/ InitSparse

NextSample ==
  \/ driver = "fill" /\ NextFill
  \/ driver = "sparse" /\ NextSparse

SpecSample == InitSample /\ [][NextSample]_vars

(* the tables of 6 and 7 slots under any calls, or the large one being     *)
(* filled                                                                  *)
InitRepair == InitTable \/ InitFill

NextRepair ==
  \/ driver = "table" /\ Next
  \/ driver = "fill" /\ NextFill

SpecRepair == InitRepair /\ [][NextRepair]_vars

(* ---------------- removeExpired, one loop iteration a step ------------ *)
(* mutant: the loop does not stop for a cache too small for a sample *)
stopsSamplingOnLoadOnly(c) == loadFactorBelow(c, MIN_LOAD_FACTOR)

(* lines 246-255: the cache is too sparse or too small to take a sample *)
stopsSampling(c) == loadFactorBelow(c, MIN_LOAD_FACTOR) \/ c.size < MIN_SAMPLE_SIZE

(* lines 234-240: the call is validated and sets the clock; a call that    *)
(* throws changes nothing                                                  *)
ExpireBegin(timeStamp, targetRatio) ==
  /\ call.pc = "idle"
  /\ IF \/ timeStamp < currentTime
        \/ targetRatio.num * MIN_TARGET_RATIO.den < MIN_TARGET_RATIO.num * targetRatio.den
     THEN UNCHANGED vars
     ELSE /\ CommitCache([Cache EXCEPT !.time = timeStamp])
          /\ call' = [Idle EXCEPT !.pc = "loop", !.targetRatio = targetRatio]
          /\ UNCHANGED <<trueMap, lastInsert, victim, recency>>

(* lines 244-260: the head of the outer loop, which returns or starts a    *)
(* sample                                                                  *)
ExpireLoop ==
  /\ call.pc = "loop"
  /\ IF stopsSampling(Cache)
     THEN call' = Idle /\ Recall(recency, Cache)
     ELSE /\ call' = [call EXCEPT !.pc = "sample", !.beforeSize = _size,
                                  !.sampleSize = 0, !.sampled = {}]
          /\ UNCHANGED recency
  /\ UNCHANGED <<driver, maxEntries, cacheVars, assertsHold, trueMap, lastInsert,
                 victim>>

(* lines 261-271: one draw of randomIndex; the draw of an empty slot (line *)
(* 263) or of a sampled one (line 266) is followed by another draw         *)
ExpireDraw(index) ==
  /\ call.pc = "sample"
  /\ call.sampleSize < MIN_SAMPLE_SIZE
  /\ IF isEmpty(Cache, index) \/ index \in call.sampled
     THEN UNCHANGED vars
     ELSE /\ call' = [call EXCEPT
                        !.sampleSize = @ + Len(clusterIndices(Cache, index)),
                        !.sampled = @ \cup SeqRange(clusterIndices(Cache, index))]
          /\ CommitCache(fixCluster(Cache, index))
          /\ UNCHANGED <<trueMap, lastInsert, victim, recency>>

(* lines 273-279: the sample is complete; the call returns or loops *)
ExpireRound ==
  /\ call.pc = "sample"
  /\ call.sampleSize >= MIN_SAMPLE_SIZE
  /\ IF (call.beforeSize - _size) * call.targetRatio.den
          <= call.targetRatio.num * call.sampleSize
     THEN call' = Idle /\ Recall(recency, Cache)
     ELSE call' = [call EXCEPT !.pc = "loop"] /\ UNCHANGED recency
  /\ UNCHANGED <<driver, maxEntries, cacheVars, assertsHold, trueMap, lastInsert,
                 victim>>

(* the slots of the large table *)
BigSlots == 0..(Ceil(Big.maxEntries * Big.mlf.den, Big.mlf.num) - 1)

(* TTL_testcase with removeExpired run step by step *)
NextExpire ==
  \/ call.pc = "idle" /\ Fill
  \/ /\ betweenBatches
     /\ \E timeStamp \in Stamps, targetRatio \in Ratios :
          ExpireBegin(timeStamp, targetRatio)
  \/ ExpireLoop
  \/ \E index \in BigSlots : ExpireDraw(index)
  \/ ExpireRound

(* a draw can change the state: the sample is short and a non-empty slot  *)
(* is not in it (the draw of any other slot is followed by another draw)   *)
canDraw ==
  /\ call.pc = "sample"
  /\ call.sampleSize < MIN_SAMPLE_SIZE
  /\ { i \in BigSlots : ~isEmpty(Cache, i) /\ i \notin call.sampled } # {}

(* the call in progress keeps running, and randomIndex is fair: while the  *)
(* loop of line 261 runs, an index that extends the sample is drawn        *)
(* eventually. The last conjunct is weak fairness of the draws, with       *)
(* canDraw for ENABLED <<\E index \in BigSlots : ExpireDraw(index)>>_vars   *)
ExpireFairness ==
  /\ WF_vars(ExpireLoop)
  /\ WF_vars(ExpireRound)
  /\ <>[]canDraw => []<><<\E index \in BigSlots : ExpireDraw(index)>>_vars

SpecExpire == InitFill /\ [][NextExpire]_vars /\ ExpireFairness

(* --------------------------- observations ----------------------------- *)
Slots == 0..(_capacity - 1)

NonEmptySlots == { i \in Slots : ~isEmpty(Cache, i) }

(* the nodes met by walking from 'cur' along next, as LRU_order does *)
RECURSIVE LRU_walk(_, _, _)
LRU_walk(c, cur, fuel) ==
  IF cur = NULL \/ fuel = 0 THEN <<>>
  ELSE <<cur>> \o LRU_walk(c, c.kv[cur].next, fuel - 1)

LRU_nodes == LRU_walk(Cache, LRU_oldest, _capacity + 1)

LRU_order(c) ==
  LET nodes == LRU_walk(c, c.oldest, c.capacity + 1)
  IN [i \in 1..Len(nodes) |-> c.kv[nodes[i]].key]

(* the key stored in a non-empty slot, and its ideal slot *)
keyAt(i) == heap[table[i].kv].key

idealSlot(key) == hashFunction(key) % _capacity

(* timestamps a call made now passes validation with *)
FutureStamps == { t \in Times : currentTime <= t }

(* ------------------------------- claims ------------------------------- *)

(* C1: oracle agreement. Whenever get(k, t) of the cache returns a value,  *)
(* get(k, t) of the dummy_cache that received the same inserts and gets    *)
(* returns a value too, and the same one.                                  *)
OracleAgreement ==
  driver = "test" =>
    \A key \in Keys, t \in FutureStamps :
      LET value == get(Cache, key, t).ret
          trueValue == dummy_get(trueMap, key, t).ret
      IN value # Absent => (trueValue # Absent /\ value = trueValue)

(* one key is read back from the cache and the oracle alike; another key,  *)
(* evicted or at its expire time exactly, is a miss of the cache while the *)
(* oracle still returns it                                                 *)
OracleAgreementWitness ==
  /\ driver = "test"
  /\ \E key \in Keys :
       /\ get(Cache, key, currentTime).ret = NumValues
       /\ dummy_get(trueMap, key, currentTime).ret = NumValues
  /\ \E key \in Keys :
       /\ get(Cache, key, currentTime).ret = Absent
       /\ dummy_get(trueMap, key, currentTime).ret # Absent

(* C2: completeness of get. If the most recent insert of k stored v, has   *)
(* not expired at t and k was not the LRU eviction victim of an insert     *)
(* since, get(k, t) returns v.                                             *)
GetComplete ==
  \A key \in Keys :
    (lastInsert[key].state = "live" /\ ~victim[key]) =>
      \A t \in FutureStamps :
        t < lastInsert[key].expire => get(Cache, key, t).ret = lastInsert[key].value

(* a live key sits behind an expired entry of its cluster: the get that    *)
(* returns it first removes that entry and relocates the key               *)
GetCompleteWitness ==
  \E key \in Keys :
    /\ lastInsert[key].state = "live" /\ ~victim[key]
    /\ LET r == get(Cache, key, currentTime)
       IN /\ r.ret = lastInsert[key].value
          /\ r.c.size < _size
          /\ findKey(r.c, key) # findKey(Cache, key)

(* C3: get never returns an expired value. Once the most recent insert of  *)
(* k has expired at t (t >= its timeStamp + ttl), get(k, t) returns absent.*)
GetNeverExpired ==
  \A key \in Keys, t \in FutureStamps :
    (\/ lastInsert[key].state = "expired"
     \/ lastInsert[key].state = "live" /\ t >= lastInsert[key].expire)
    => get(Cache, key, t).ret = Absent

(* the entry is still in the table and the get is at its expire time exactly *)
GetNeverExpiredWitness ==
  \E key \in Keys :
    /\ lastInsert[key].state = "live"
    /\ lastInsert[key].expire \in FutureStamps
    /\ findKey(Cache, key) # invalidIndex(Cache)
    /\ get(Cache, key, lastInsert[key].expire).ret = Absent

(* C4: load bound. After any public call size <= floor(maxLoadFactor *     *)
(* capacity), and the number of stored pairs is at most maxEntries.        *)
LoadBound ==
  /\ _size <= (maxLoadFactor.num * _capacity) \div maxLoadFactor.den
  /\ _size <= maxEntries
  /\ Cardinality(NonEmptySlots) <= maxEntries

(* the cache is full, maxLoadFactor * capacity is not an integer, and the  *)
(* insert of a key that is not stored leaves the size at the bound         *)
LoadBoundWitness ==
  /\ _size = maxEntries
  /\ (maxLoadFactor.num * _capacity) % maxLoadFactor.den # 0
  /\ \A i \in NonEmptySlots : ~isExpired(Cache, i)
  /\ \E key \in Keys :
       /\ findKey(Cache, key) = invalidIndex(Cache)
       /\ insert(Cache, key, 1, currentTime, 1).c.size = maxEntries

(* C5: open-addressing invariant. For every non-empty slot s holding key   *)
(* k, every slot on the cyclic probe sequence from hash(k) mod capacity up *)
(* to but not including s is non-empty.                                    *)
OpenAddressing ==
  \A s \in NonEmptySlots :
    \A d \in 0..(_capacity - 1) :
      d < entryDist(Cache, idealSlot(keyAt(s)), s)
        => ~isEmpty(Cache, (idealSlot(keyAt(s)) + d) % _capacity)

(* a cluster of three that wraps around the end of the table, from which a *)
(* get removes the expired first entry and moves the two others up         *)
OpenAddressingWitness ==
  /\ _size = 3
  /\ ~isEmpty(Cache, _capacity - 1) /\ ~isEmpty(Cache, 0) /\ ~isEmpty(Cache, 1)
  /\ isExpired(Cache, _capacity - 1)
  /\ LET c == get(Cache, keyAt(0), currentTime).c
     IN /\ c.size = 2
        /\ ~isEmpty(c, _capacity - 1) /\ ~isEmpty(c, 0) /\ isEmpty(c, 1)

(* C6: size agreement. size() equals the number of non-empty slots and the *)
(* number of nodes reached from LRU_oldest along next.                     *)
SizeAgreement ==
  /\ _size = Cardinality(NonEmptySlots)
  /\ _size = Len(LRU_nodes)

(* entries have been removed (a node was freed) and others remain *)
SizeAgreementWitness ==
  /\ _size >= 2
  /\ \E i \in Slots : isEmpty(Cache, i) /\ table[i].expireTime # 0

(* C7: slot-list bijection. Every non-empty slot references a node of the  *)
(* LRU list, every node of the list is referenced by exactly one non-empty *)
(* slot, no two non-empty slots hold equal keys, and no referenced node    *)
(* has been freed.                                                         *)
SlotListBijection ==
  /\ \A s \in NonEmptySlots :
       /\ heap[table[s].kv].live
       /\ \E i \in 1..Len(LRU_nodes) : LRU_nodes[i] = table[s].kv
  /\ \A i \in 1..Len(LRU_nodes) :
       /\ heap[LRU_nodes[i]].live
       /\ Cardinality({ s \in NonEmptySlots : table[s].kv = LRU_nodes[i] }) = 1
  /\ \A s1, s2 \in NonEmptySlots : keyAt(s1) = keyAt(s2) => s1 = s2

(* an entry has been relocated: it sits in its ideal slot, and the slot    *)
(* after it still holds the stale reference to its node                    *)
SlotListBijectionWitness ==
  \E s \in NonEmptySlots :
    /\ idealSlot(keyAt(s)) = s
    /\ isEmpty(Cache, (s + 1) % _capacity)
    /\ table[(s + 1) % _capacity].hash = table[s].hash
    /\ table[(s + 1) % _capacity].expireTime = table[s].expireTime

(* C8: LRU endpoints. With size 0 both LRU_oldest and LRU_newest are null; *)
(* with size 1 they are the same node; with size > 1 they are two distinct *)
(* nodes, the first and the last of the doubly-linked list.                *)
LRUEndpoints ==
  /\ _size = 0 => (LRU_oldest = NULL /\ LRU_newest = NULL)
  /\ _size = 1 => (LRU_oldest # NULL /\ LRU_oldest = LRU_newest)
  /\ _size > 1 => (LRU_oldest # NULL /\ LRU_newest # NULL /\ LRU_oldest # LRU_newest)
  /\ _size >= 1 =>
       /\ heap[LRU_oldest].prev = NULL
       /\ heap[LRU_newest].next = NULL
       /\ LRU_nodes[1] = LRU_oldest
       /\ LRU_nodes[Len(LRU_nodes)] = LRU_newest
       /\ \A i \in 1..(Len(LRU_nodes) - 1) :
            heap[LRU_nodes[i + 1]].prev = LRU_nodes[i]

(* the list has three nodes and the removal of its head, of its tail or of *)
(* its middle node is one get away                                         *)
LRUEndpointsWitness ==
  /\ _size = 3
  /\ \E i \in NonEmptySlots :
       /\ isExpired(Cache, i)
       /\ table[i].kv \notin {LRU_oldest, LRU_newest}

(* C9: cache clock. Every get, insert or removeExpired call that passes    *)
(* validation (a timestamp equal to the clock does) sets the clock to the  *)
(* timestamp of the call, so the clock never decreases and is never below  *)
(* its initial value 0.                                                    *)
ClockFollowsCalls ==
  /\ currentTime >= 0
  /\ \A t \in FutureStamps :
       /\ \A key \in Keys :
            LET r == get(Cache, key, t)
            IN r.threw = NoThrow /\ r.c.time = t
       /\ \A key \in Keys, value \in Values, ttl \in TTLs \ {0} :
            LET r == insert(Cache, key, value, t, ttl)
            IN r.threw = NoThrow /\ r.c.time = t
       /\ \A targetRatio \in Ratios :
            targetRatio.num * MIN_TARGET_RATIO.den >= MIN_TARGET_RATIO.num * targetRatio.den
            => \A r \in removeExpired(Cache, t, targetRatio) :
                 r.threw = NoThrow /\ r.c.time = t

CacheClock == []ClockFollowsCalls /\ [][currentTime' >= currentTime]_vars

(* the clock has advanced, entries are stored, and calls at the clock's    *)
(* own time and at a later time are both accepted                          *)
CacheClockWitness ==
  /\ currentTime > 0 /\ currentTime < MaxTime
  /\ _size > 0
  /\ \E key \in Keys : get(Cache, key, currentTime).threw = NoThrow
  /\ \E r \in removeExpired(Cache, currentTime + 1, [num |-> 1, den |-> 4]) :
       r.c.time = currentTime + 1

(* C10: ClockRegression. A get, insert or removeExpired with a timestamp   *)
(* strictly less than the clock throws and leaves the whole cache as it    *)
(* was: table slots, stored values, expire times, LRU order, size, clock.  *)
ClockRegressionThrows ==
  \A t \in Times :
    t < currentTime =>
      /\ \A key \in Keys : get(Cache, key, t) = Thrown(Cache, ClockRegression)
      /\ \A key \in Keys, value \in Values, ttl \in TTLs :
           insert(Cache, key, value, t, ttl) = Thrown(Cache, ClockRegression)
      /\ \A targetRatio \in Ratios :
           removeExpired(Cache, t, targetRatio) = { Thrown(Cache, ClockRegression) }

(* the same get one tick later would have removed an expired entry *)
ClockRegressionWitness ==
  /\ currentTime > 0
  /\ \E key \in Keys :
       /\ get(Cache, key, currentTime - 1).threw = ClockRegression
       /\ get(Cache, key, currentTime).c.size < _size

(* C11: DeadOnArrival. An insert with ttl <= 0 and a timestamp that passes *)
(* validation, also one later than the clock, throws and leaves the whole  *)
(* cache as it was: clock, table, expire times, LRU list and size.         *)
DeadOnArrivalThrows ==
  \A key \in Keys, value \in Values, t \in FutureStamps, ttl \in {-1, 0} :
    insert(Cache, key, value, t, ttl) = Thrown(Cache, DeadOnArrival)

(* the same insert with ttl 1, one tick later, advances the clock and      *)
(* removes a stored key (expired or evicted)                               *)
DeadOnArrivalWitness ==
  /\ currentTime < MaxTime
  /\ \E key \in Keys :
       /\ insert(Cache, key, 1, currentTime + 1, 0).threw = DeadOnArrival
       /\ LET c == insert(Cache, key, 1, currentTime + 1, 1).c
          IN /\ c.time = currentTime + 1
             /\ \E s \in NonEmptySlots : findKey(c, keyAt(s)) = invalidIndex(c)

(* C20: hash cache invariant. After any public call, the hash stored in a  *)
(* non-empty slot is the hash function applied to the key of the node the  *)
(* slot references, relocated slots included.                              *)
HashCached ==
  \A s \in NonEmptySlots : table[s].hash = hashFunction(keyAt(s))

(* an entry sits in a slot that last held an entry of another hash, and    *)
(* the next get moves an unexpired entry of another hash to a new slot     *)
HashCachedWitness ==
  /\ \E s \in NonEmptySlots : idealSlot(keyAt(s)) # s
  /\ \E key \in Keys, s \in NonEmptySlots :
       LET c == get(Cache, key, currentTime).c
       IN /\ ~isExpired(Cache, s)
          /\ findKey(c, keyAt(s)) \notin {s, invalidIndex(c)}
          /\ table[findKey(c, keyAt(s))].hash # table[s].hash

(* C19: idempotence of reads. get(k, t) followed immediately by get(k, t)  *)
(* returns the same result, and the second call leaves the whole cache as  *)
(* the first one left it: table, expire times, LRU list, size and clock.   *)
ReadIdempotent ==
  \A key \in Keys, t \in FutureStamps :
    LET first == get(Cache, key, t)
        second == get(first.c, key, t)
    IN /\ second.threw = NoThrow
       /\ second.ret = first.ret
       /\ second.c = first.c

(* the first get returns a value, removes an expired entry and moves the   *)
(* key from the head of the LRU list to its tail; another first get is a   *)
(* miss that removes the key itself                                        *)
ReadIdempotentWitness ==
  /\ \E key \in Keys :
       LET first == get(Cache, key, currentTime)
       IN /\ first.ret # Absent
          /\ first.c.size < _size
          /\ heap[LRU_oldest].key = key
          /\ first.c.kv[first.c.newest].key = key
          /\ get(first.c, key, currentTime).ret = first.ret
  /\ \E key \in Keys :
       /\ findKey(Cache, key) # invalidIndex(Cache)
       /\ get(Cache, key, currentTime).ret = Absent

(* the cache an insert of 'key' at time t works on once it has set the     *)
(* clock and repaired the cluster of the key (lines 182-183)               *)
afterPassiveExpiration(key, t) ==
  fixCluster([Cache EXCEPT !.time = t], idealSlot(key))

(* the entry of slot s is stored in cache c, with its value and expire time *)
keptIn(c, s) ==
  /\ findKey(c, keyAt(s)) # invalidIndex(c)
  /\ c.table[findKey(c, keyAt(s))].expireTime = table[s].expireTime
  /\ c.kv[c.table[findKey(c, keyAt(s))].kv].value = heap[table[s].kv].value

(* C14: LRU eviction victim. When insert is called with a key that is not  *)
(* stored and, after passive expiration of the key's cluster, size + 1 >   *)
(* maxLoadFactor * capacity, the entry at the head of the LRU list is      *)
(* evicted and every other entry unexpired at the call's timestamp is      *)
(* still stored when insert returns.                                       *)
EvictionVictim ==
  \A key \in Keys, value \in Values, t \in FutureStamps, ttl \in TTLs \ {0} :
    LET c1 == afterPassiveExpiration(key, t)
        c == insert(Cache, key, value, t, ttl).c
    IN (findKey(Cache, key) = invalidIndex(Cache) /\ exceedsLoad(c1)) =>
         /\ c1.oldest # NULL
         /\ findKey(c, c1.kv[c1.oldest].key) = invalidIndex(c)
         /\ \A s \in NonEmptySlots :
              (table[s].expireTime > t /\ table[s].kv # c1.oldest) => keptIn(c, s)

(* the cache is full of unexpired entries, the head of the LRU list is not *)
(* in the new key's ideal slot, and the insert evicts it and nothing else  *)
EvictionVictimWitness ==
  /\ _size = maxEntries
  /\ \A s \in NonEmptySlots : ~isExpired(Cache, s)
  /\ \E key \in Keys :
       LET c == insert(Cache, key, 1, currentTime, 1).c
       IN /\ findKey(Cache, key) = invalidIndex(Cache)
          /\ idealSlot(heap[LRU_oldest].key) # idealSlot(key)
          /\ findKey(c, heap[LRU_oldest].key) = invalidIndex(c)
          /\ c.size = maxEntries

(* the non-empty slots of cache c that hold 'key' *)
slotsOf(c, key) ==
  { s \in 0..(c.capacity - 1) : ~isEmpty(c, s) /\ c.kv[c.table[s].kv].key = key }

(* C15: update refreshes the entry. insert(k, v2, t, ttl) on a stored key  *)
(* k leaves exactly one entry for k, with value v2 and expire time t + ttl *)
(* (later or earlier than the previous one), and a following get(k, t')    *)
(* with t <= t' < t + ttl returns v2.                                      *)
UpdateRefreshes ==
  \A key \in Keys, value \in Values, t \in FutureStamps, ttl \in TTLs \ {0} :
    findKey(Cache, key) # invalidIndex(Cache) =>
      LET c == insert(Cache, key, value, t, ttl).c
      IN /\ Cardinality(slotsOf(c, key)) = 1
         /\ \A s \in slotsOf(c, key) :
              /\ c.table[s].expireTime = t + ttl
              /\ c.kv[c.table[s].kv].value = value
         /\ \A t2 \in Times : (t <= t2 /\ t2 < t + ttl) => get(c, key, t2).ret = value

(* one stored key is given a later expire time and is then read at its     *)
(* previous expire time; another is given an earlier expire time; both     *)
(* hold another value before the update                                    *)
UpdateRefreshesWitness ==
  /\ \E key \in Keys :
       LET c == insert(Cache, key, 2, currentTime, 2).c
       IN /\ slotsOf(Cache, key) # {}
          /\ \A s \in slotsOf(Cache, key) :
               table[s].expireTime = currentTime + 1 /\ heap[table[s].kv].value = 1
          /\ currentTime + 1 \in Times
          /\ get(c, key, currentTime + 1).ret = 2
  /\ \E key \in Keys :
       LET c == insert(Cache, key, 2, currentTime, 1).c
       IN /\ slotsOf(Cache, key) # {}
          /\ \A s \in slotsOf(Cache, key) :
               table[s].expireTime = currentTime + 2 /\ heap[table[s].kv].value = 1
          /\ \A s \in slotsOf(c, key) : c.table[s].expireTime = currentTime + 1

(* C16: an insert whose key is stored and unexpired is an in-place update  *)
(* that evicts nothing: every other entry unexpired at the call's          *)
(* timestamp remains stored, and the size is unchanged when no entry is    *)
(* expired, also in a full cache. (Refuted by the code: the load test of   *)
(* line 187 runs before findKey and evicts LRU_oldest.)                    *)
UpdateEvictsNothing ==
  \A key \in Keys, value \in Values, t \in FutureStamps, ttl \in TTLs \ {0} :
    (/\ findKey(Cache, key) # invalidIndex(Cache)
     /\ table[findKey(Cache, key)].expireTime > t)
    => LET c == insert(Cache, key, value, t, ttl).c
       IN /\ \A s \in NonEmptySlots :
               (table[s].expireTime > t /\ keyAt(s) # key) => keptIn(c, s)
          /\ (\A s \in NonEmptySlots : table[s].expireTime > t) => c.size = _size

(* the keys of 'order' that cache c stores, in the same order *)
remainingIn(order, c) ==
  LET stored(k) == findKey(c, k) # invalidIndex(c)
  IN SelectSeq(order, stored)

(* every key in use by the driver that runs the cache *)
DriverKeys == IF driver = "fill" THEN FillKeys ELSE Keys

(* C13: LRU order is recency order. LRU_order() lists exactly the keys     *)
(* stored, each once, by their most recent successful access (an insert,   *)
(* or a get that returned a value), least recent first; a get that returns *)
(* absent and a removeExpired call keep the relative order of the keys     *)
(* that remain.                                                            *)
RecencyOrder ==
  /\ LRU_order(Cache) = recency
  /\ \A key \in DriverKeys :
       Cardinality({ i \in 1..Len(LRU_order(Cache)) : LRU_order(Cache)[i] = key })
         = IF slotsOf(Cache, key) # {} THEN 1 ELSE 0
  /\ \A t \in FutureStamps :
       /\ \A key \in DriverKeys :
            LET r == get(Cache, key, t)
            IN r.ret = Absent => LRU_order(r.c) = remainingIn(LRU_order(Cache), r.c)
       /\ \A targetRatio \in Ratios :
            \A r \in removeExpired(Cache, t, targetRatio) :
              LRU_order(r.c) = remainingIn(LRU_order(Cache), r.c)

(* two keys are stored; a get of the least recent one that returns a value *)
(* would swap them, and a get of it one tick later is a miss that removes  *)
(* it and leaves the other key                                             *)
RecencyOrderWitness ==
  /\ driver = "calls"
  /\ Len(recency) = 2
  /\ currentTime < MaxTime
  /\ LET hit == get(Cache, recency[1], currentTime)
         miss == get(Cache, recency[1], currentTime + 1)
     IN /\ hit.ret # Absent
        /\ LRU_order(hit.c) = <<recency[2], recency[1]>>
        /\ miss.ret = Absent
        /\ LRU_order(miss.c) = <<recency[2]>>

(* target ratios below MIN_TARGET_RATIO *)
LowRatios ==
  { [num |-> 1, den |-> 200], [num |-> 0, den |-> 1], [num |-> 99, den |-> 10000] }

(* C12: UnreachableTarget. removeExpired with targetRatio < 0.01 and a     *)
(* timestamp that passes validation, also one later than the clock, throws *)
(* and leaves the whole cache as it was: the clock is not advanced and no  *)
(* entry is removed.                                                       *)
UnreachableTargetThrows ==
  \A t \in FutureStamps, targetRatio \in LowRatios :
    removeExpired(Cache, t, targetRatio) = { Thrown(Cache, UnreachableTarget) }

(* the same call with target ratio 0.25 removes entries *)
UnreachableTargetWitness ==
  /\ currentTime < MaxTime
  /\ removeExpired(Cache, currentTime + 1, [num |-> 1, den |-> 200])
       = { Thrown(Cache, UnreachableTarget) }
  /\ \E r \in removeExpired(Cache, currentTime + 1, [num |-> 1, den |-> 4]) :
       r.c.size < _size /\ r.c.time = currentTime + 1

(* C17: removeExpired removes only expired entries. For every call         *)
(* removeExpired(t, r) and every outcome of the sampling, each entry with  *)
(* expireTime > t stored before the call is stored afterwards with the     *)
(* same value and expire time; when no stored entry is expired at t the    *)
(* call removes nothing and the size is unchanged.                         *)
ExpireKeepsLive ==
  \A t \in FutureStamps, targetRatio \in Ratios :
    \A r \in removeExpired(Cache, t, targetRatio) :
      /\ \A s \in NonEmptySlots : table[s].expireTime > t => keptIn(r.c, s)
      /\ (\A s \in NonEmptySlots : table[s].expireTime > t) =>
           (r.c.size = _size /\ r.c.table = table /\ r.c.kv = heap)

(* the cache holds enough entries for a sample; a call at the clock's time *)
(* finds nothing expired, and a call one tick later removes expired        *)
(* entries and moves an unexpired one to another slot                      *)
ExpireKeepsLiveWitness ==
  /\ _size >= MIN_SAMPLE_SIZE
  /\ currentTime < MaxTime
  /\ \A s \in NonEmptySlots : table[s].expireTime > currentTime
  /\ \A r \in removeExpired(Cache, currentTime, [num |-> 1, den |-> 4]) : r.c.size = _size
  /\ \E r \in removeExpired(Cache, currentTime + 1, [num |-> 1, den |-> 4]) :
       /\ r.c.size < _size
       /\ \E s \in NonEmptySlots :
            /\ table[s].expireTime > currentTime + 1
            /\ findKey(r.c, keyAt(s)) \notin {s, invalidIndex(r.c)}

(* the sampling rounds the loop of removeExpired (lines 244-280) can go    *)
(* through from cache c: the cache before the round, the cache after it    *)
(* and the sample taken                                                    *)
RECURSIVE expireRounds(_, _)
expireRounds(c, targetRatio) ==
  IF loadFactorBelow(c, MIN_LOAD_FACTOR) \/ c.size < MIN_SAMPLE_SIZE THEN {}
  ELSE UNION { { [before |-> c, after |-> s.c, sample |-> s.sample] }
               \cup (IF (c.size - s.c.size) * targetRatio.den
                          <= targetRatio.num * Len(s.sample)
                     THEN {}
                     ELSE expireRounds(s.c, targetRatio))
               : s \in takeSample(c, <<>>) }

(* accepted target ratios below 1 *)
DrainRatios ==
  { [num |-> 1, den |-> 4], [num |-> 1, den |-> 100], [num |-> 99, den |-> 100] }

(* C18: removeExpired on a fully expired cache. If every stored entry is   *)
(* expired at t and targetRatio < 1, removeExpired(t, targetRatio) returns *)
(* for every sampling outcome only with size < MIN_SAMPLE_SIZE or          *)
(* loadFactor() < MIN_LOAD_FACTOR, and every sampling round removes as     *)
(* many entries as it sampled (expired ratio exactly 1).                   *)
AllExpiredDrains ==
  \A t \in FutureStamps, targetRatio \in DrainRatios :
    (\A s \in NonEmptySlots : table[s].expireTime <= t) =>
      /\ \A r \in removeExpired(Cache, t, targetRatio) :
           /\ r.threw = NoThrow
           /\ r.c.size < MIN_SAMPLE_SIZE \/ loadFactorBelow(r.c, MIN_LOAD_FACTOR)
      /\ \A round \in expireRounds([Cache EXCEPT !.time = t], targetRatio) :
           round.before.size - round.after.size = Len(round.sample)

(* 40 entries, all expired at the last timestamp: the first round samples  *)
(* and removes 20 of them, the loop starts again and the second round      *)
(* empties the cache                                                       *)
AllExpiredDrainsWitness ==
  /\ _size = Big.maxEntries
  /\ \A s \in NonEmptySlots : table[s].expireTime <= MaxTime
  /\ \E s \in NonEmptySlots : table[s].expireTime > currentTime
  /\ \E round \in expireRounds([Cache EXCEPT !.time = MaxTime], [num |-> 1, den |-> 4]) :
       round.before.size = MIN_SAMPLE_SIZE /\ round.after.size = 0
  /\ \A r \in removeExpired(Cache, MaxTime, [num |-> 1, den |-> 4]) : r.c.size = 0

(* the slots whose draw extends the sample of the call in progress *)
drawable == { i \in 0..(_capacity - 1) : ~isEmpty(Cache, i) /\ i \notin call.sampled }

(* C21: removeExpired terminates. With a fair random index generator every *)
(* call that passes validation returns: while the sample is short of       *)
(* MIN_SAMPLE_SIZE a non-empty slot that is not sampled yet remains to be  *)
(* drawn, also after fixCluster has emptied or compacted the sampled       *)
(* clusters, and a round after which the loop starts again has removed at  *)
(* least one entry.                                                        *)
RemoveExpiredTerminates ==
  /\ (call.pc # "idle") ~> (call.pc = "idle")
  /\ [](call.pc = "sample" /\ call.sampleSize < MIN_SAMPLE_SIZE => drawable # {})
  /\ [][(call.pc = "sample" /\ call'.pc = "loop") => _size < call.beforeSize]_vars

(* the second round of a call: its first sampled cluster has been emptied  *)
(* in part, the sample is still short and other clusters remain            *)
RemoveExpiredTerminatesWitness ==
  /\ call.pc = "sample"
  /\ call.beforeSize < Big.maxEntries
  /\ call.sampleSize \in 1..(MIN_SAMPLE_SIZE - 1)
  /\ \E i \in call.sampled : isEmpty(Cache, i)
  /\ \E i \in call.sampled : ~isEmpty(Cache, i)

(* the slots of the forward probe run of cache c from slot 'index' up to   *)
(* the first empty slot                                                    *)
probeRun(c, index) == SeqRange(clusterAfter(c, index, c.capacity))

(* C22: passive expiration on get. Right after get(k, t) returns, no slot  *)
(* of the forward probe run from k's ideal slot up to the first empty slot *)
(* holds an entry with expireTime <= t; if k's ideal slot was empty before *)
(* the call, the call changes nothing but the clock.                       *)
GetPurgesProbeRun ==
  \A key \in Keys, t \in FutureStamps :
    LET r == get(Cache, key, t)
    IN /\ \A s \in probeRun(r.c, idealSlot(key)) : r.c.table[s].expireTime > t
       /\ isEmpty(Cache, idealSlot(key)) =>
            (r.ret = Absent /\ r.c = [Cache EXCEPT !.time = t])

(* a get that returns a value removes an expired entry of the probe run of *)
(* its key other than the key's own, and a get one tick later removes the  *)
(* key as well                                                             *)
GetPurgesProbeRunWitness ==
  /\ currentTime < MaxTime
  /\ \E key \in Keys :
       LET r == get(Cache, key, currentTime)
       IN /\ r.ret # Absent
          /\ \E s \in probeRun(Cache, idealSlot(key)) :
               isExpired(Cache, s) /\ keyAt(s) # key
          /\ r.c.size = _size - 1
          /\ get(Cache, key, currentTime + 1).ret = Absent
          /\ get(Cache, key, currentTime + 1).c.size = _size - 2

(* the slots of the cluster of cache c that slot 'index' is in, none when  *)
(* the slot is empty                                                       *)
clusterOf(c, index) ==
  IF isEmpty(c, index) THEN {} ELSE SeqRange(clusterIndices(c, index))

(* the slots from slot 'from' to slot 'to' in probe order, both included *)
probePath(c, from, to) ==
  { (from + d) % c.capacity : d \in 0..entryDist(c, from, to) }

(* C23: passive expiration on insert. Right after insert(k, v, t, ttl)     *)
(* returns, the cluster (maximal run of non-empty slots) that contains k's *)
(* slot holds no entry with expireTime <= t. (Refuted: the new entry can   *)
(* fill the empty slot next to a cluster the call did not repair.)         *)
InsertPurgesCluster ==
  \A key \in Keys, value \in Values, t \in FutureStamps, ttl \in TTLs \ {0} :
    LET c == insert(Cache, key, value, t, ttl).c
    IN \A s \in clusterOf(c, findKey(c, key)) : c.table[s].expireTime > t

(* C23 as amended: right after insert(k, v, t, ttl) returns, no slot on    *)
(* the probe path from k's ideal slot to k's slot holds an entry with      *)
(* expireTime <= t, and an entry with expireTime <= t in the cluster of    *)
(* k's slot is in the slot it had before the call, which was not in the    *)
(* cluster of k's ideal slot then.                                         *)
InsertPurgesTouched ==
  \A key \in Keys, value \in Values, t \in FutureStamps, ttl \in TTLs \ {0} :
    LET c == insert(Cache, key, value, t, ttl).c
    IN /\ findKey(c, key) # invalidIndex(c)
       /\ \A s \in probePath(c, idealSlot(key), findKey(c, key)) :
            ~isEmpty(c, s) /\ c.table[s].expireTime > t
       /\ \A s \in clusterOf(c, findKey(c, key)) :
            c.table[s].expireTime <= t =>
              /\ s \notin clusterOf(Cache, idealSlot(key))
              /\ ~isEmpty(Cache, s)
              /\ c.table[s] = table[s]

(* the insert of one key removes its own expired entry and stores the key  *)
(* again; the insert of another key fills the empty slot before that       *)
(* entry, which stays in the table, expired, in the cluster of the new key *)
InsertPurgesTouchedWitness ==
  /\ \E key \in Keys :
       LET c == insert(Cache, key, 1, currentTime, 1).c
       IN /\ findKey(Cache, key) # invalidIndex(Cache)
          /\ isExpired(Cache, findKey(Cache, key))
          /\ c.table[findKey(c, key)].expireTime = currentTime + 1
  /\ \E key \in Keys :
       LET c == insert(Cache, key, 1, currentTime, 1).c
       IN /\ isEmpty(Cache, idealSlot(key))
          /\ \E s \in clusterOf(c, findKey(c, key)) :
               c.table[s].expireTime <= currentTime

(* the cache as a call at time t finds it once it has set the clock *)
atTime(t) == [Cache EXCEPT !.time = t]

(* the entries of cache c in the slots 'slots' that fixCluster removes *)
expiredIn(c, slots) == { s \in slots : ~isEmpty(c, s) /\ isExpired(c, s) }

(* C24: fixCluster is local. fixCluster(i) changes nothing when slot i is  *)
(* empty; when slot i is non-empty it removes every expired or             *)
(* sentinel-flagged entry of the cluster containing i and changes no slot  *)
(* outside that cluster: entries of other clusters keep their slot, hash   *)
(* and expire time, and the expired ones among them stay in the table and  *)
(* keep counting in size().                                                *)
FixClusterLocal ==
  \A t \in FutureStamps, i \in Slots :
    LET repaired(c0, c) ==
          /\ \A s \in clusterOf(c0, i) : isEmpty(c, s) \/ ~isExpired(c, s)
          /\ \A s \in expiredIn(c0, clusterOf(c0, i)) :
               findKey(c, c0.kv[c0.table[s].kv].key) = invalidIndex(c)
          /\ \A s \in Slots \ clusterOf(c0, i) : c.table[s] = c0.table[s]
          /\ c.size = c0.size - Cardinality(expiredIn(c0, clusterOf(c0, i)))
          /\ c.time = c0.time
        flagged(c0) == [c0 EXCEPT !.table[i].expireTime = LRU_EVICTED_FLAG]
    IN IF isEmpty(Cache, i) THEN fixCluster(atTime(t), i) = atTime(t)
       ELSE /\ repaired(atTime(t), fixCluster(atTime(t), i))
            /\ repaired(flagged(atTime(t)), fixCluster(flagged(atTime(t)), i))
            /\ isEmpty(fixCluster(flagged(atTime(t)), i), i)
                 \/ fixCluster(flagged(atTime(t)), i).table[i].kv # table[i].kv

(* several clusters hold expired entries; the repair of one of them        *)
(* removes its expired entries, moves a survivor and leaves the expired    *)
(* entries of the others, and the repair of an empty slot changes nothing  *)
FixClusterLocalWitness ==
  /\ currentTime < MaxTime
  /\ \E i, j \in NonEmptySlots :
       LET c0 == atTime(currentTime + 1)
           c == fixCluster(c0, i)
       IN /\ j \notin clusterOf(Cache, i)
          /\ isExpired(c0, i) /\ isExpired(c0, j)
          /\ ~isEmpty(c, j) /\ isExpired(c, j)
          /\ c.size < _size
          /\ c.size > _size - Cardinality(expiredIn(c0, NonEmptySlots))
          /\ \E s \in clusterOf(Cache, i) :
               ~isExpired(c0, s) /\ findKey(c, keyAt(s)) \notin {s, invalidIndex(c)}

(* the displacement of the entry of cache c in slot s: the cyclic distance *)
(* from its ideal slot to s (entryDist, as printTable shows it)            *)
displacement(c, s) == entryDist(c, hashToIndex(c, c.table[s].hash), s)

(* the slot of cache c that holds the node slot s of the table references *)
slotAfter(c, s) ==
  CHOOSE s2 \in 0..(c.capacity - 1) : ~isEmpty(c, s2) /\ c.table[s2].kv = table[s].kv

(* C25: relocation only toward the ideal slot. Every relocation of pass 2  *)
(* of fixCluster moves an entry to a slot on the probe path between its    *)
(* ideal slot and its current slot, so no displacement increases and no    *)
(* entry is moved past its ideal slot; surviving entries with the same     *)
(* ideal slot keep their relative probe order.                             *)
RelocationTowardIdeal ==
  \A t \in FutureStamps, i \in NonEmptySlots :
    LET toward(c0, c) ==
          LET survivors == { s \in clusterOf(c0, i) : ~isExpired(c0, s) }
          IN /\ \A s \in survivors :
                  /\ Cardinality({ s2 \in Slots : ~isEmpty(c, s2)
                                                 /\ c.table[s2].kv = table[s].kv }) = 1
                  /\ slotAfter(c, s) \in probePath(c0, idealSlot(keyAt(s)), s)
                  /\ displacement(c, slotAfter(c, s)) <= displacement(c0, s)
                  /\ c.table[slotAfter(c, s)].hash = table[s].hash
             /\ \A s1, s2 \in survivors :
                  (/\ idealSlot(keyAt(s1)) = idealSlot(keyAt(s2))
                   /\ displacement(c0, s1) < displacement(c0, s2))
                  => displacement(c, slotAfter(c, s1)) < displacement(c, slotAfter(c, s2))
        flagged(c0) == [c0 EXCEPT !.table[i].expireTime = LRU_EVICTED_FLAG]
    IN /\ toward(atTime(t), fixCluster(atTime(t), i))
       /\ toward(flagged(atTime(t)), fixCluster(flagged(atTime(t)), i))

(* a cluster that wraps around the end of the table: its first entry has   *)
(* expired, the second one is in its ideal slot and stays there although   *)
(* the slot before it is free, and the third one moves from displacement 2 *)
(* to its ideal slot                                                       *)
RelocationTowardIdealWitness ==
  /\ currentTime < MaxTime
  /\ \E i, s1, s2 \in NonEmptySlots :
       LET c0 == atTime(currentTime + 1)
           c == fixCluster(c0, i)
       IN /\ isExpired(c0, i) /\ ~isExpired(c0, s1) /\ ~isExpired(c0, s2)
          /\ s1 = nextIndex(Cache, i) /\ s2 = nextIndex(Cache, s1) /\ s2 < i
          /\ displacement(c0, s1) = 0 /\ slotAfter(c, s1) = s1
          /\ displacement(c0, s2) = 2 /\ slotAfter(c, s2) = i

(* every entry of cache c has a real expire time *)
realExpiry(c) ==
  \A s \in 0..(c.capacity - 1) :
    ~isEmpty(c, s) =>
      c.table[s].expireTime # LRU_EVICTED_FLAG /\ c.table[s].expireTime >= 1

(* C26: the eviction sentinel never persists. After any public call        *)
(* returns no non-empty slot has expireTime LRU_EVICTED_FLAG: every stored *)
(* expire time is the timeStamp + ttl of the insert that wrote it,         *)
(* strictly greater than that timestamp and so at least 1; a slot flagged  *)
(* by LRU_evictOldest is reclaimed within the same insert call.            *)
SentinelNeverPersists ==
  /\ realExpiry(Cache)
  /\ \A key \in Keys :
       (lastInsert[key].state = "live" /\ slotsOf(Cache, key) # {}) =>
         \A s \in slotsOf(Cache, key) : table[s].expireTime = lastInsert[key].expire
  /\ \A key \in Keys, value \in Values, t \in FutureStamps, ttl \in TTLs \ {0} :
       LET c == insert(Cache, key, value, t, ttl).c
           evicted == evictedBy(Cache, key, t)
       IN /\ realExpiry(c)
          /\ \A s \in slotsOf(c, key) :
               c.table[s].expireTime = t + ttl /\ c.table[s].expireTime > t
          /\ (evicted # 0 /\ evicted # key) => slotsOf(c, evicted) = {}

(* an insert has evicted a key that had not expired, the cache is full     *)
(* again, and the insert of the key that is not stored evicts once more    *)
SentinelNeverPersistsWitness ==
  /\ _size = maxEntries
  /\ \E key \in Keys :
       /\ victim[key] /\ slotsOf(Cache, key) = {}
       /\ lastInsert[key].expire > currentTime
  /\ \E key \in Keys :
       /\ slotsOf(Cache, key) = {}
       /\ evictedBy(Cache, key, currentTime) # 0
       /\ insert(Cache, key, 1, currentTime, 1).c.size = maxEntries

(* target ratios removeExpired accepts *)
AcceptedRatios == DrainRatios \cup { [num |-> 1, den |-> 1] }

(* C27: removeExpired early exit. If at the time of the call size <        *)
(* MIN_SAMPLE_SIZE or loadFactor() < MIN_LOAD_FACTOR, removeExpired(t, r)  *)
(* with valid arguments only advances the clock to t: table, LRU order and *)
(* size are unchanged, also when stored entries are expired at t.          *)
ExpireEarlyExit ==
  \A t \in FutureStamps, targetRatio \in AcceptedRatios :
    (_size < MIN_SAMPLE_SIZE \/ loadFactorBelow(Cache, MIN_LOAD_FACTOR)) =>
      removeExpired(Cache, t, targetRatio) = { Returned(atTime(t), Absent) }

(* 20 entries in 210 slots: enough for a sample, but the load factor is    *)
(* below 0.1; half of them expire one tick later and the call then leaves  *)
(* them in the table, while the same call one insert later removes them    *)
ExpireEarlyExitWitness ==
  /\ _size = MIN_SAMPLE_SIZE
  /\ loadFactorBelow(Cache, MIN_LOAD_FACTOR)
  /\ currentTime < MaxTime
  /\ Cardinality(expiredIn(atTime(currentTime + 1), NonEmptySlots)) >= 10
  /\ \A r \in removeExpired(Cache, currentTime + 1, [num |-> 1, den |-> 4]) :
       r.c.size = MIN_SAMPLE_SIZE /\ LRU_order(r.c) = LRU_order(Cache)
  /\ \E key \in SparseKeys :
       \A r \in removeExpired(insert(Cache, key, 1, currentTime, 2).c,
                              currentTime + 1, [num |-> 1, den |-> 4]) :
         r.c.size < MIN_SAMPLE_SIZE

(* C28: internal assertions never fail. For every sequence of public calls *)
(* that pass validation no assert of the source is violated: a key found   *)
(* by get is not expired, a key just inserted is found, no entry met by    *)
(* pass 2 of fixCluster is expired, LRU_removeFromList finds the sole node *)
(* at both ends of the list and a head or tail that is not the other end,  *)
(* a key moved to newest is still found, and LRU_evictOldest runs with     *)
(* size > 0 and finds the head key in the table.                           *)
AssertionsHold ==
  /\ assertsHold
  /\ \A t \in FutureStamps :
       /\ \A key \in DriverKeys : get(Cache, key, t).c.ok
       /\ \A key \in DriverKeys : insert(Cache, key, 1, t, 1).c.ok
       /\ \A targetRatio \in {[num |-> 1, den |-> 4], [num |-> 1, den |-> 100]} :
            \A r \in removeExpired(Cache, t, targetRatio) : r.c.ok

(* three entries, one of them expired: the get of the key at the head of   *)
(* the LRU list removes the expired entry (not the only node of the list), *)
(* relocates the key and moves its node to the tail                        *)
AssertionsHoldWitness ==
  /\ _size = 3
  /\ \E key \in Keys :
       LET r == get(Cache, key, currentTime)
       IN /\ heap[LRU_oldest].key = key
          /\ r.ret # Absent
          /\ r.c.size = 2
          /\ findKey(r.c, key) # findKey(Cache, key)
          /\ r.c.kv[r.c.newest].key = key
          /\ r.c.ok

====
